---- MODULE Spec2Model ----
(***************************************************************************)
(* State-machine model of custom_actions/actions1.py: the ABX action       *)
(* handlers for GitHub Enterprise Server.  A handler invocation is one     *)
(* atomic action: the host picks an inputs mapping, the environment picks  *)
(* the answers of the credential request and of the repository calls, and  *)
(* the handler runs to its return (or to the exception that leaves it).    *)
(*                                                                         *)
(* Python values: a mapping is a function whose DOMAIN is its key set; a   *)
(* list is a sequence; an optional value (None or v) is << >> or << v >>;  *)
(* a text that the code parses or compares character by character (a tree  *)
(* path, a JSON text) is a sequence of characters.                         *)
(***************************************************************************)
EXTENDS Integers, Sequences, FiniteSets, TLC

VARIABLES
  pc,              \* "idle": the host holds no result; "done": a handler has ended
  handlers,        \* logging.getLogger().handlers: a list of handler objects (ids)
  level,           \* logging.getLogger().level
  handlersBefore,  \* the root logger's handlers when the last invocation began
  handler,         \* name of the handler last invoked
  inputs,          \* the inputs mapping the host passed
  inputsAfter,     \* the same mapping object after the handler ended
  env,             \* answers of the host context and of the remote repository
  result,          \* "none" | "returned" | "raised"
  raisedExc,       \* the exception that left the handler (when result = "raised")
  outputs,         \* the mapping returned (when result = "returned")
  calls            \* the network calls of the invocation, in order

vars == << pc, handlers, level, handlersBefore, handler, inputs, inputsAfter,
           env, result, raisedExc, outputs, calls >>

-----------------------------------------------------------------------------
(* Bounds of the model *)

MaxHandlers == 3   \* handlers the host may have left on the root logger
MaxTree     == 4   \* entries of the remote git tree
MaxPage == 2   \* largest page index requested
MaxPageSize == 2   \* largest page size requested
MaxFileSize == 2   \* largest size of the fetched file
MaxLen      == 3   \* longest list paged through, longest credential text

-----------------------------------------------------------------------------
(* Constants of the module, lines 11-50 *)

AUTH_LINK_KEY == "privateKey"

INPUT_AUTH_CREDENTIALS_LINK == "authCredentialsLink"
INPUT_BASE_URL == "baseUrl"
INPUT_LOG_LEVEL == "logLevel"
INPUT_REPOSITORY_NAME == "repositoryName"
INPUT_PROJECT_NAME == "projectName"
INPUT_FILE_PATH == "filePath"
INPUT_BRANCH_NAME == "branchName"
INPUT_DIR_PATH == "dirPath"
INPUT_TO_COMMIT == "toCommit"
INPUT_FILE_SIZE_LIMIT == "fileSizeLimit"
INPUT_PAGE == "page"
INPUT_PAGE_SIZE == "pageSize"
INPUT_SKIP_COMMIT_INFO == "skipCommitInfo"

OUTPUT_ERROR_MESSAGE == "error_message"
OUTPUT_STATUS == "status"
OUTPUT_STATUS_SUCCESS == "success"
OUTPUT_STATUS_FAILURE == "failure"
OUTPUT_RESULT == "result"
OUTPUT_ENCODING == "encoding"
OUTPUT_CONTENT == "content"
OUTPUT_FILE_NAME == "fileName"
OUTPUT_FILE_PATH == "filePath"
OUTPUT_AUTHOR_NAME == "authorName"
OUTPUT_COMMITTER_NAME == "committerName"
OUTPUT_COMMITTER_EMAIL == "committerEmail"
OUTPUT_COMMIT_ID == "commitId"
OUTPUT_COMMIT_DATE == "commitDate"
OUTPUT_COMMITS == "commits"
OUTPUT_COMMENTS == "comments"
OUTPUT_TOTAL_PAGES == "totalPages"
OUTPUT_TOTAL_ELEMENTS == "totalElements"

-----------------------------------------------------------------------------
(* Python primitives the code relies on *)

EmptyMap == << >>

\* d[k] = v on a dict
Put(d, k, v) == [x \in (DOMAIN d) \cup {k} |-> IF x = k THEN v ELSE d[x]]

\* an exception object: its class and its argument
Exc(type, msg) == [type |-> type, msg |-> msg]

NoExc == Exc("", "")

\* str(e): a KeyError shows the repr of its argument, the others the argument
StrOfExc(e) == IF e.type = "KeyError" THEN "'" \o e.msg \o "'" ELSE e.msg

\* the outcome of a step that may raise
Ok(v) == [ok |-> TRUE, val |-> v, exc |-> NoExc]

Raise(e) == [ok |-> FALSE, val |-> << >>, exc |-> e]

\* str.upper() on the log level names the model feeds
Upper(s) ==
  CASE s = "debug" -> "DEBUG"
    [] s = "info" -> "INFO"
    [] OTHER -> s

\* getattr(logging, name, None): << n >> for the integer attributes, << >> otherwise
LoggingAttr(name) ==
  CASE name = "CRITICAL" -> << 50 >>
    [] name = "ERROR" -> << 40 >>
    [] name = "WARNING" -> << 30 >>
    [] name = "INFO" -> << 20 >>
    [] name = "DEBUG" -> << 10 >>
    [] name = "NOTSET" -> << 0 >>
    [] OTHER -> << >>

\* int(text) for the texts the model feeds as fileSizeLimit
IntOfText(s) ==
  CASE s = "0" -> Ok(0)
    [] s = "1" -> Ok(1)
    [] s = "2" -> Ok(2)
    [] OTHER -> Raise(Exc("ValueError",
                 "invalid literal for int() with base 10: '" \o s \o "'"))

\* math.ceil(a / b) for integers a >= 0, b # 0 (true division, then ceiling)
CeilDiv(a, b) == IF b > 0 THEN (a + b - 1) \div b ELSE -(a \div (-b))

Min(a, b) == IF a <= b THEN a ELSE b

\* items[start:end] for 0 <= start <= end <= len(items)
Slice(items, start, end) == [i \in 1..(end - start) |-> items[start + i]]

-----------------------------------------------------------------------------
(* Logging setup, lines 535-562 *)

\* list.remove(x): drops the first element equal to x
ListRemove(list, x) ==
  LET i == CHOOSE j \in 1..Len(list) :
             list[j] = x /\ \A k \in 1..(j - 1) : list[k] # x
  IN  [k \in 1..(Len(list) - 1) |-> IF k < i THEN list[k] ELSE list[k + 1]]

RECURSIVE RemoveLoop(_, _)
\* for handler in logger.handlers: logger.removeHandler(handler)
\* the list iterator holds an index (idx, 0-based) into the list being changed
RemoveLoop(list, idx) ==
  IF idx >= Len(list) THEN list
  ELSE RemoveLoop(ListRemove(list, list[idx + 1]), idx + 1)

\* the state of the root logger during an invocation: its handlers, its level,
\* and every handler object that existed at some time during the invocation
Logger(hs, lvl) == [handlers |-> hs, level |-> lvl,
                    seen |-> {hs[i] : i \in 1..Len(hs)}]

\* a new handler object: distinct from every handler that existed before it
NewHandler(seen) == CHOOSE h \in 1..(Cardinality(seen) + 1) : h \notin seen

\* logging.basicConfig(format=..., level=n): does nothing when the root
\* logger already has a handler
BasicConfig(log, n) ==
  IF Len(log.handlers) = 0
  THEN [handlers |-> << NewHandler(log.seen) >>, level |-> n,
        seen |-> log.seen \cup {NewHandler(log.seen)}]
  ELSE log

setupLogger(logLevel, log) ==
  LET removed == [log EXCEPT !.handlers = RemoveLoop(log.handlers, 0)]
      name    == IF logLevel = << >> THEN "INFO" ELSE logLevel[1]
      numeric == LoggingAttr(Upper(name))
  IN  IF numeric = << >>
      THEN [ok |-> FALSE, log |-> removed,
            exc |-> Exc("ValueError", "Invalid log level: [" \o name \o "]")]
      ELSE [ok |-> TRUE, log |-> BasicConfig(removed, numeric[1]), exc |-> NoExc]

\* inputs.get(INPUT_LOG_LEVEL, None)
setup(ins, log) ==
  setupLogger(IF INPUT_LOG_LEVEL \in DOMAIN ins THEN << ins[INPUT_LOG_LEVEL] >>
              ELSE << >>, log)

-----------------------------------------------------------------------------
(* validateInputs, lines 519-532 *)

RECURSIVE validateInputs(_, _)
validateInputs(ins, requiredArgs) ==
  IF requiredArgs = << >> THEN Ok(TRUE)
  ELSE IF Head(requiredArgs) \notin DOMAIN ins
       THEN Raise(Exc("KeyError",
                      "Input argument " \o Head(requiredArgs) \o " is required"))
       ELSE validateInputs(ins, Tail(requiredArgs))

-----------------------------------------------------------------------------
(* Texts that are read character by character *)

Quote == "\""

RECURSIVE DecText(_)
\* str(n) for a natural number n
DecText(n) ==
  LET digit == << "0", "1", "2", "3", "4", "5", "6", "7", "8", "9" >>
  IN  IF n < 10 THEN digit[n + 1] ELSE DecText(n \div 10) \o digit[(n % 10) + 1]

\* json.loads(text) on the texts of the model, which hold no backslash, no
\* white space and no JSON literal other than a string: a text that opens with
\* a quote is a string literal up to the next quote; nothing may follow it
JsonLoads(text) ==
  IF text = << >> \/ text[1] # Quote
  THEN Raise(Exc("JSONDecodeError", "Expecting value: line 1 column 1 (char 0)"))
  ELSE IF \A i \in 2..Len(text) : text[i] # Quote
  THEN Raise(Exc("JSONDecodeError",
                 "Unterminated string starting at: line 1 column 1 (char 0)"))
  ELSE
  LET close == CHOOSE i \in 2..Len(text) :
                 text[i] = Quote /\ \A j \in 2..(i - 1) : text[j] # Quote
  IN  IF close = Len(text) THEN Ok(Slice(text, 1, close - 1))
      ELSE Raise(Exc("JSONDecodeError",
                     "Extra data: line 1 column " \o DecText(close + 1)
                       \o " (char " \o DecText(close) \o ")"))

\* code points of the characters of tree paths
Slash == 47

RECURSIVE LexLess(_, _)
\* Python's a < b on str: by code point, a proper prefix first
LexLess(a, b) ==
  IF b = << >> THEN FALSE
  ELSE IF a = << >> THEN TRUE
  ELSE IF Head(a) # Head(b) THEN Head(a) < Head(b)
  ELSE LexLess(Tail(a), Tail(b))

RECURSIVE Insert(_, _)
Insert(sorted, x) ==
  IF sorted = << >> THEN << x >>
  ELSE IF LexLess(x, Head(sorted)) THEN << x >> \o sorted
  ELSE << Head(sorted) >> \o Insert(Tail(sorted), x)

RECURSIVE Sort(_)
\* list.sort() on a list of str: ascending, stable
Sort(list) ==
  IF list = << >> THEN << >>
  ELSE Insert(Sort(SubSeq(list, 1, Len(list) - 1)), list[Len(list)])

\* str.rfind('/'): the 0-based index of the last '/', -1 when there is none
RFindSlash(path) ==
  IF \E i \in 1..Len(path) : path[i] = Slash
  THEN (CHOOSE i \in 1..Len(path) :
          path[i] = Slash /\ \A j \in (i + 1)..Len(path) : path[j] # Slash) - 1
  ELSE -1

-----------------------------------------------------------------------------
(* getPagedSlice, lines 565-579 *)

\* a faulty paging: the end of the slice stops one short of the list's end
getPagedSliceShort(page, pageSize, targetItems) ==
  LET start == page * pageSize
      end   == Min(start + pageSize, Len(targetItems) - 1)
  IN  IF start >= end THEN << >> ELSE Slice(targetItems, start, end)

getPagedSlice(page, pageSize, targetItems) ==
  LET start == page * pageSize
      end   == Min(start + pageSize, Len(targetItems))
  IN  IF start >= end THEN << >> ELSE Slice(targetItems, start, end)

-----------------------------------------------------------------------------
(* getTokenFromAuthCredentialsLink, lines 582-611 *)

\* context.request(link, 'GET', ''): the host raises or answers with a mapping
ContextRequest(context, link) ==
  IF context.raises THEN Raise(Exc("Exception", "host request failed"))
  ELSE Ok(context.response)

\* response["content"][AUTH_LINK_KEY]
CredentialText(response) ==
  IF "content" \notin DOMAIN response THEN Raise(Exc("KeyError", "content"))
  ELSE IF AUTH_LINK_KEY \notin DOMAIN response["content"]
       THEN Raise(Exc("KeyError", AUTH_LINK_KEY))
       ELSE Ok(response["content"][AUTH_LINK_KEY])

\* the body of the try block, lines 598-608
ResolveToken(context, link) ==
  LET response == ContextRequest(context, link)
  IN  IF ~response.ok THEN response
      ELSE IF response.val["status"] # 200
           \* 'Failed to obtain auth credentials from '.format(link): no
           \* placeholder, so the link is not part of the message
           THEN Raise(Exc("Exception", "Failed to obtain auth credentials from "))
           ELSE LET text == CredentialText(response.val)
                IN  IF ~text.ok THEN text ELSE JsonLoads(text.val)

\* a faulty resolver: the request to the host is issued a second time
getTokenRequestedTwice(context, link) ==
  LET r == ResolveToken(context, link)
  IN  [ok |-> r.ok, val |-> r.val,
       exc |-> IF r.ok THEN NoExc
               ELSE Exc("Exception",
                        "Failed to retrieve credentials from auth credentials link: "
                          \o StrOfExc(r.exc)),
       calls |-> << "context.request", "context.request" >>]

\* one context.request per call; every failure is raised again, wrapped
getTokenFromAuthCredentialsLink(context, link) ==
  LET r == ResolveToken(context, link)
  IN  [ok |-> r.ok, val |-> r.val,
       exc |-> IF r.ok THEN NoExc
               ELSE Exc("Exception",
                        "Failed to retrieve credentials from auth credentials link: "
                          \o StrOfExc(r.exc)),
       calls |-> << "context.request" >>]

-----------------------------------------------------------------------------
(* The remote repository as the PyGithub client shows it *)

\* the exception a failing repository call raises
RemoteError == Exc("GithubException", "404 {\"message\": \"Not Found\"}")

\* the repository-client calls among the network calls made so far
RepoCalls(cs) == SelectSeq(cs, LAMBDA c : c # "context.request")

\* whether the next repository call raises: the environment fails call number failAt
NextRepoCallFails(e, cs) == e.failAt = Len(RepoCalls(cs)) + 1

\* the entries of the remote tree, in the order the remote lists them:
\* "b", "a" (a directory), "a/c", "a.b", "ab", ...
TreeEntries ==
  << [path |-> << 98 >>, type |-> "blob"],
     [path |-> << 97 >>, type |-> "tree"],
     [path |-> << 97, 47, 99 >>, type |-> "blob"],
     [path |-> << 97, 46, 98 >>, type |-> "blob"],
     [path |-> << 97, 98 >>, type |-> "blob"],
     [path |-> << 97, 47, 97 >>, type |-> "blob"] >>

\* gitTree.tree of the tree the remote holds
GitTree(e) == SubSeq(TreeEntries, 1, e.tree)

\* the fetched ContentFile and the GitCommit the remote answers with
RemoteFile(e) == [size |-> e.size, encoding |-> "base64", content |-> "Y29udGVudA==",
                  name |-> "file.txt", path |-> "dir/file.txt"]

RemoteCommit(e) == [sha |-> "c0ffee", last_modified |-> "Tue, 01 Nov 2022",
                    message |-> "update", author |-> << "alice" >>,
                    committer |-> IF e.committer THEN << "bob" >> ELSE << >>]

\* the commit descriptor keys written from a GitCommit, lines 179-186 and 495-502
CommitKeys(m, commit) ==
  LET m1 == Put(m, OUTPUT_AUTHOR_NAME, commit.author[1])
      m2 == Put(m1, OUTPUT_COMMIT_ID, commit.sha)
      m3 == Put(m2, OUTPUT_COMMIT_DATE, commit.last_modified)
      m4 == Put(m3, OUTPUT_COMMENTS, commit.message)
  IN  IF commit.committer # << >>
      THEN Put(Put(m4, OUTPUT_COMMITTER_NAME, commit.committer[1]),
               OUTPUT_COMMITTER_EMAIL, "bob@example.com")
      ELSE m4

-----------------------------------------------------------------------------
(* The handlers.  A try block ends as Done(outputs, calls) or, at the first *)
(* exception, as Fail(exc, outputs so far, calls); the except clause then   *)
(* writes the failure keys into the same outputs mapping.                   *)

Done(out, cs) == [ok |-> TRUE, exc |-> NoExc, out |-> out, calls |-> cs]

Fail(e, out, cs) == [ok |-> FALSE, exc |-> e, out |-> out, calls |-> cs]

\* what an invocation leaves: a returned mapping or a raised exception
Returned(out, cs, log, ins) ==
  [result |-> "returned", exc |-> NoExc, outputs |-> out, calls |-> cs,
   log |-> log, inputs |-> ins]

Raised(e, cs, log, ins) ==
  [result |-> "raised", exc |-> e, outputs |-> EmptyMap, calls |-> cs,
   log |-> log, inputs |-> ins]

\* validateToken, lines 84-92: the calls once the token is resolved (t)
validateTokenRemote(ins, e, t) ==
  IF ~t.ok THEN Fail(t.exc, EmptyMap, t.calls)
  ELSE IF NextRepoCallFails(e, t.calls)
       THEN Fail(RemoteError, EmptyMap, Append(t.calls, "get_user"))
       ELSE Done(Put(Put(EmptyMap, OUTPUT_STATUS, OUTPUT_STATUS_SUCCESS),
                     OUTPUT_RESULT, TRUE), Append(t.calls, "get_user"))

\* validateToken, try block, lines 74-92
validateTokenTry(ins, e) ==
  LET v == validateInputs(ins, << INPUT_BASE_URL, INPUT_AUTH_CREDENTIALS_LINK >>)
  IN  IF ~v.ok THEN Fail(v.exc, EmptyMap, << >>)
      ELSE validateTokenRemote(ins, e,
             getTokenFromAuthCredentialsLink(e.context,
                                             ins[INPUT_AUTH_CREDENTIALS_LINK]))

\* validateToken, lines 93-102: the except clause and the return, t the try block's end
validateTokenExcept(t, log, ins) ==
  IF t.ok THEN Returned(t.out, t.calls, log, ins)
  ELSE
  LET errorMessage == "Failed to validate GitHub Enterprise Server credentials: "
                        \o StrOfExc(t.exc)
      o1 == Put(t.out, OUTPUT_STATUS, OUTPUT_STATUS_FAILURE)
      o2 == Put(o1, OUTPUT_ERROR_MESSAGE, errorMessage)
  IN  Returned(Put(o2, OUTPUT_RESULT, FALSE), t.calls, log, ins)

\* validateToken, lines 71-102
validateToken(ins, e, log) ==
  LET s == setup(ins, log)
  IN  IF ~s.ok THEN Raised(s.exc, << >>, s.log, ins)
      ELSE validateTokenExcept(validateTokenTry(ins, e), s.log, ins)

\* a faulty size check: a file whose size equals the limit is refused as well
getFileShapeAtLimit(ins, e, file, cs) ==
  LET fileSizeLimit == ins[INPUT_FILE_SIZE_LIMIT]
      limit == IntOfText(fileSizeLimit)
  IN  IF ~limit.ok THEN Fail(limit.exc, EmptyMap, cs)
      ELSE IF file.size >= limit.val
      THEN Done(Put(Put(EmptyMap, OUTPUT_ERROR_MESSAGE,
                        "File size exceeds configured limit of " \o fileSizeLimit
                          \o " bytes."),
                    OUTPUT_RESULT, FALSE), cs)
      ELSE IF NextRepoCallFails(e, cs)
      THEN Fail(RemoteError, EmptyMap, Append(cs, "get_commits"))
      ELSE
  LET o1 == Put(EmptyMap, OUTPUT_STATUS, OUTPUT_STATUS_SUCCESS)
      o2 == Put(o1, OUTPUT_ENCODING, file.encoding)
      o3 == Put(o2, OUTPUT_CONTENT, file.content)
      o4 == Put(o3, OUTPUT_FILE_NAME, file.name)
      o5 == Put(o4, OUTPUT_FILE_PATH, file.path)
  IN  Done(CommitKeys(o5, RemoteCommit(e)), Append(cs, "get_commits"))

\* getFile, lines 163-186: the size check on the fetched file and what follows;
\* cs are the calls made so far
getFileShape(ins, e, file, cs) ==
  LET fileSizeLimit == ins[INPUT_FILE_SIZE_LIMIT]
      limit == IntOfText(fileSizeLimit)
  IN  IF ~limit.ok THEN Fail(limit.exc, EmptyMap, cs)
      ELSE IF file.size > limit.val
      THEN Done(Put(Put(EmptyMap, OUTPUT_ERROR_MESSAGE,
                        "File size exceeds configured limit of " \o fileSizeLimit
                          \o " bytes."),
                    OUTPUT_RESULT, FALSE), cs)
      ELSE IF NextRepoCallFails(e, cs)
      THEN Fail(RemoteError, EmptyMap, Append(cs, "get_commits"))
      ELSE
  LET o1 == Put(EmptyMap, OUTPUT_STATUS, OUTPUT_STATUS_SUCCESS)
      o2 == Put(o1, OUTPUT_ENCODING, file.encoding)
      o3 == Put(o2, OUTPUT_CONTENT, file.content)
      o4 == Put(o3, OUTPUT_FILE_NAME, file.name)
      o5 == Put(o4, OUTPUT_FILE_PATH, file.path)
  IN  Done(CommitKeys(o5, RemoteCommit(e)), Append(cs, "get_commits"))

\* getFile, lines 159-186: the calls once the token is resolved (t)
getFileRemote(ins, e, t) ==
  IF ~t.ok THEN Fail(t.exc, EmptyMap, t.calls)
  ELSE IF NextRepoCallFails(e, t.calls)
       THEN Fail(RemoteError, EmptyMap, Append(t.calls, "get_repo"))
       ELSE IF NextRepoCallFails(e, Append(t.calls, "get_repo"))
            THEN Fail(RemoteError, EmptyMap, t.calls \o << "get_repo", "get_contents" >>)
            ELSE getFileShape(ins, e, RemoteFile(e),
                              t.calls \o << "get_repo", "get_contents" >>)

\* getFile, try block, lines 145-186
getFileTry(ins, e) ==
  LET v == validateInputs(ins, << INPUT_BASE_URL, INPUT_AUTH_CREDENTIALS_LINK,
                                  INPUT_REPOSITORY_NAME, INPUT_PROJECT_NAME,
                                  INPUT_FILE_PATH, INPUT_BRANCH_NAME,
                                  INPUT_FILE_SIZE_LIMIT >>)
  IN  IF ~v.ok THEN Fail(v.exc, EmptyMap, << >>)
      ELSE getFileRemote(ins, e,
             getTokenFromAuthCredentialsLink(e.context,
                                             ins[INPUT_AUTH_CREDENTIALS_LINK]))

\* a faulty except clause: the exception's message without the handler's prefix
getFileExceptBare(t, log, ins) ==
  IF t.ok THEN Returned(t.out, t.calls, log, ins)
  ELSE Returned(Put(Put(t.out, OUTPUT_STATUS, OUTPUT_STATUS_FAILURE),
                    OUTPUT_ERROR_MESSAGE, t.exc.msg),
                t.calls, log, ins)

\* getFile, lines 188-194: the except clause and the return
getFileExcept(t, log, ins) ==
  IF t.ok THEN Returned(t.out, t.calls, log, ins)
  ELSE
  LET errorMessage == "Failed to get file from GitHub Enterprise Server: "
                        \o StrOfExc(t.exc)
      o1 == Put(t.out, OUTPUT_STATUS, OUTPUT_STATUS_FAILURE)
  IN  Returned(Put(o1, OUTPUT_ERROR_MESSAGE, errorMessage), t.calls, log, ins)

\* getFile, lines 142-194
getFile(ins, e, log) ==
  LET s == setup(ins, log)
  IN  IF ~s.ok THEN Raised(s.exc, << >>, s.log, ins)
      ELSE getFileExcept(getFileTry(ins, e), s.log, ins)

\* getLatestCommitId, lines 233-240: the calls once the token is resolved (t)
getLatestCommitIdRemote(ins, e, t) ==
  IF ~t.ok THEN Fail(t.exc, EmptyMap, t.calls)
  ELSE IF NextRepoCallFails(e, t.calls)
       THEN Fail(RemoteError, EmptyMap, Append(t.calls, "get_repo"))
       ELSE IF NextRepoCallFails(e, Append(t.calls, "get_repo"))
            THEN Fail(RemoteError, EmptyMap, t.calls \o << "get_repo", "get_branch" >>)
            ELSE
  LET commit == RemoteCommit(e)    \* branch.commit, the HEAD commit of the branch
  IN  Done(Put(Put(EmptyMap, OUTPUT_STATUS, OUTPUT_STATUS_SUCCESS),
               OUTPUT_RESULT, commit.sha),
           t.calls \o << "get_repo", "get_branch" >>)

\* getLatestCommitId, try block, lines 221-240
getLatestCommitIdTry(ins, e) ==
  LET v == validateInputs(ins, << INPUT_BASE_URL, INPUT_AUTH_CREDENTIALS_LINK,
                                  INPUT_REPOSITORY_NAME, INPUT_PROJECT_NAME,
                                  INPUT_BRANCH_NAME >>)
  IN  IF ~v.ok THEN Fail(v.exc, EmptyMap, << >>)
      ELSE getLatestCommitIdRemote(ins, e,
             getTokenFromAuthCredentialsLink(e.context,
                                             ins[INPUT_AUTH_CREDENTIALS_LINK]))

\* getLatestCommitId, lines 242-250: the except clause and the return
getLatestCommitIdExcept(t, log, ins) ==
  IF t.ok THEN Returned(t.out, t.calls, log, ins)
  ELSE
  LET errorMessage == "Failed to get latest commit ID from GitHub Enterprise Server: "
                        \o StrOfExc(t.exc)
      o1 == Put(t.out, OUTPUT_STATUS, OUTPUT_STATUS_FAILURE)
      o2 == Put(o1, OUTPUT_ERROR_MESSAGE, errorMessage)
  IN  Returned(Put(o2, OUTPUT_RESULT, ""), t.calls, log, ins)

\* getLatestCommitId, lines 218-250
getLatestCommitId(ins, e, log) ==
  LET s == setup(ins, log)
  IN  IF ~s.ok THEN Raised(s.exc, << >>, s.log, ins)
      ELSE getLatestCommitIdExcept(getLatestCommitIdTry(ins, e), s.log, ins)

\* a faulty getAllCommits: it reads the commit history of the file and returns
\* the requested page of it
getAllCommitsPaged(ins, e, t) ==
  IF ~t.ok THEN Fail(t.exc, EmptyMap, t.calls)
  ELSE IF NextRepoCallFails(e, t.calls)
       THEN Fail(RemoteError, EmptyMap, Append(t.calls, "get_repo"))
       ELSE IF NextRepoCallFails(e, Append(t.calls, "get_repo"))
            THEN Fail(RemoteError, EmptyMap, t.calls \o << "get_repo", "get_branch" >>)
            ELSE IF NextRepoCallFails(e, t.calls \o << "get_repo", "get_branch" >>)
                 THEN Fail(RemoteError, EmptyMap,
                           t.calls \o << "get_repo", "get_branch", "get_commits" >>)
                 ELSE
  LET commit == RemoteCommit(e)
      page   == getPagedSlice(ins[INPUT_PAGE], ins[INPUT_PAGE_SIZE],
                              << CommitKeys(EmptyMap, commit) >>)
  IN  Done(Put(Put(Put(EmptyMap, OUTPUT_STATUS, OUTPUT_STATUS_SUCCESS),
                   OUTPUT_RESULT, commit.sha),
               OUTPUT_COMMITS, page),
           t.calls \o << "get_repo", "get_branch", "get_commits" >>)

\* getAllCommits, lines 356-373: the calls once the token is resolved (t)
getAllCommitsRemote(ins, e, t) ==
  IF ~t.ok THEN Fail(t.exc, EmptyMap, t.calls)
  ELSE IF NextRepoCallFails(e, t.calls)
       THEN Fail(RemoteError, EmptyMap, Append(t.calls, "get_repo"))
       ELSE IF NextRepoCallFails(e, Append(t.calls, "get_repo"))
            THEN Fail(RemoteError, EmptyMap, t.calls \o << "get_repo", "get_branch" >>)
            ELSE
  LET commit == RemoteCommit(e)    \* branch.commit, the HEAD commit of the branch
  IN  Done(Put(Put(EmptyMap, OUTPUT_STATUS, OUTPUT_STATUS_SUCCESS),
               OUTPUT_RESULT, commit.sha),
           t.calls \o << "get_repo", "get_branch" >>)

\* getAllCommits, try block, lines 344-373
getAllCommitsTry(ins, e) ==
  LET v == validateInputs(ins, << INPUT_BASE_URL, INPUT_AUTH_CREDENTIALS_LINK,
                                  INPUT_REPOSITORY_NAME, INPUT_PROJECT_NAME,
                                  INPUT_BRANCH_NAME, INPUT_FILE_PATH, INPUT_PAGE,
                                  INPUT_PAGE_SIZE >>)
  IN  IF ~v.ok THEN Fail(v.exc, EmptyMap, << >>)
      ELSE getAllCommitsRemote(ins, e,
             getTokenFromAuthCredentialsLink(e.context,
                                             ins[INPUT_AUTH_CREDENTIALS_LINK]))

\* getAllCommits, lines 375-383: the except clause and the return
getAllCommitsExcept(t, log, ins) ==
  IF t.ok THEN Returned(t.out, t.calls, log, ins)
  ELSE
  LET errorMessage == "Failed to get latest commit ID from GitHub Enterprise Server: "
                        \o StrOfExc(t.exc)
      o1 == Put(t.out, OUTPUT_STATUS, OUTPUT_STATUS_FAILURE)
      o2 == Put(o1, OUTPUT_ERROR_MESSAGE, errorMessage)
  IN  Returned(Put(o2, OUTPUT_RESULT, ""), t.calls, log, ins)

\* getAllCommits, lines 341-383
getAllCommits(ins, e, log) ==
  LET s == setup(ins, log)
  IN  IF ~s.ok THEN Raised(s.exc, << >>, s.log, ins)
      ELSE getAllCommitsExcept(getAllCommitsTry(ins, e), s.log, ins)

-----------------------------------------------------------------------------
(* getFiles, lines 433-516 *)

\* a faulty listing: the blob paths in the order the remote lists them, unsorted
TargetFilesUnsorted(tree) ==
  LET blobs == SelectSeq(tree, LAMBDA el : el.type = "blob")
  IN  [i \in 1..Len(blobs) |-> blobs[i].path]

\* lines 463-467: the paths of the blob entries, then list.sort()
TargetFiles(tree) ==
  LET blobs == SelectSeq(tree, LAMBDA el : el.type = "blob")
  IN  Sort([i \in 1..Len(blobs) |-> blobs[i].path])

\* line 477: the file name is the text after the last '/'
FileNameOf(filePath) ==
  IF RFindSlash(filePath) = -1 THEN filePath
  ELSE Slice(filePath, RFindSlash(filePath) + 1, Len(filePath))

\* lines 482-504: the commit info of one file; two repository calls
CommitInfoTry(e, toCommit, cs) ==
  IF NextRepoCallFails(e, cs)
  THEN Fail(RemoteError, EmptyMap, Append(cs, "get_contents"))
  ELSE IF NextRepoCallFails(e, Append(cs, "get_contents"))
       THEN Fail(RemoteError, EmptyMap,
                 cs \o << "get_contents",
                          IF toCommit # << >> THEN "get_commit" ELSE "get_commits" >>)
       ELSE Done(CommitKeys(Put(Put(EmptyMap, OUTPUT_ENCODING, RemoteFile(e).encoding),
                                OUTPUT_CONTENT, RemoteFile(e).content),
                            RemoteCommit(e)),
                 cs \o << "get_contents",
                          IF toCommit # << >> THEN "get_commit" ELSE "get_commits" >>)

\* lines 476-479: the descriptor of one file, before its commit info
FileDescriptor(filePath) ==
  Put(Put(Put(EmptyMap, OUTPUT_FILE_NAME, FileNameOf(filePath)),
          OUTPUT_FILE_PATH, filePath),
      OUTPUT_COMMITS, << >>)

\* outputs[OUTPUT_CONTENT].append(content)
AppendContent(out, content) ==
  Put(out, OUTPUT_CONTENT, Append(out[OUTPUT_CONTENT], content))

RECURSIVE FilesLoop(_, _, _, _, _, _)
RECURSIVE FilesLoopInfo(_, _, _, _, _, _)
\* lines 475-506: the loop over filesToReturn from position i on; out is the
\* outputs mapping, whose content list grows by one descriptor per file
FilesLoop(filesToReturn, i, e, opts, out, cs) ==
  IF i > Len(filesToReturn) THEN Done(out, cs)
  ELSE IF opts.skipCommitInfo
       THEN FilesLoop(filesToReturn, i + 1, e, opts,
                      AppendContent(out, FileDescriptor(filesToReturn[i])), cs)
       ELSE FilesLoopInfo(filesToReturn, i, e, opts, out,
                          CommitInfoTry(e, opts.toCommit, cs))

\* lines 504-506 for the file at position i, info the end of its commit info
FilesLoopInfo(filesToReturn, i, e, opts, out, info) ==
  IF ~info.ok THEN Fail(info.exc, out, info.calls)
  ELSE FilesLoop(filesToReturn, i + 1, e, opts,
                 AppendContent(out, Put(FileDescriptor(filesToReturn[i]),
                                        OUTPUT_COMMITS, << info.out >>)),
                 info.calls)

\* an optional text input: None when the key is absent or the text is empty
OptionalText(ins, k) == IF k \in DOMAIN ins /\ ins[k] # "" THEN << ins[k] >> ELSE << >>

\* lines 508-509, loop the end of the loop
getFilesSuccess(loop) ==
  IF ~loop.ok THEN loop
  ELSE Done(Put(Put(loop.out, OUTPUT_RESULT, TRUE),
                OUTPUT_STATUS, OUTPUT_STATUS_SUCCESS), loop.calls)

\* lines 458-509: the listing once the tree is fetched; cs the calls so far
getFilesListing(ins, e, targetFiles, cs) ==
  LET toCommit == OptionalText(ins, INPUT_TO_COMMIT)
      skipCommitInfo == IF INPUT_SKIP_COMMIT_INFO \in DOMAIN ins
                        THEN ins[INPUT_SKIP_COMMIT_INFO] ELSE TRUE
      pageNumber == ins[INPUT_PAGE]         \* int() of an int
      pageSize   == ins[INPUT_PAGE_SIZE]
  IN  IF pageSize = 0
      THEN Fail(Exc("ZeroDivisionError", "division by zero"), EmptyMap, cs)
      ELSE getFilesSuccess(
             FilesLoop(getPagedSlice(pageNumber, pageSize, targetFiles), 1, e,
                       [skipCommitInfo |-> skipCommitInfo, toCommit |-> toCommit],
                       Put(Put(Put(EmptyMap, OUTPUT_TOTAL_PAGES,
                                   CeilDiv(Len(targetFiles), pageSize)),
                               OUTPUT_TOTAL_ELEMENTS, Len(targetFiles)),
                           OUTPUT_CONTENT, << >>),
                       cs))

\* lines 455-509: the calls once the token is resolved (t)
getFilesRemote(ins, e, t) ==
  IF ~t.ok THEN Fail(t.exc, EmptyMap, t.calls)
  ELSE IF NextRepoCallFails(e, t.calls)
       THEN Fail(RemoteError, EmptyMap, Append(t.calls, "get_repo"))
       ELSE IF NextRepoCallFails(e, Append(t.calls, "get_repo"))
            THEN Fail(RemoteError, EmptyMap, t.calls \o << "get_repo", "get_git_tree" >>)
            ELSE getFilesListing(ins, e, TargetFiles(GitTree(e)),
                                 t.calls \o << "get_repo", "get_git_tree" >>)

\* getFiles, try block, lines 436-509
getFilesTry(ins, e) ==
  LET v == validateInputs(ins, << INPUT_BASE_URL, INPUT_AUTH_CREDENTIALS_LINK,
                                  INPUT_REPOSITORY_NAME, INPUT_PROJECT_NAME,
                                  INPUT_BRANCH_NAME, INPUT_PAGE, INPUT_PAGE_SIZE >>)
  IN  IF ~v.ok THEN Fail(v.exc, EmptyMap, << >>)
      ELSE getFilesRemote(ins, e,
             getTokenFromAuthCredentialsLink(e.context,
                                             ins[INPUT_AUTH_CREDENTIALS_LINK]))

\* getFiles, lines 511-516: the except clause and the return
getFilesExcept(t, log, ins) ==
  IF t.ok THEN Returned(t.out, t.calls, log, ins)
  ELSE
  LET o1 == Put(t.out, OUTPUT_ERROR_MESSAGE, StrOfExc(t.exc))
      o2 == Put(o1, OUTPUT_STATUS, OUTPUT_STATUS_FAILURE)
  IN  Returned(Put(o2, OUTPUT_RESULT, FALSE), t.calls, log, ins)

\* getFiles, lines 433-516
getFiles(ins, e, log) ==
  LET s == setup(ins, log)
  IN  IF ~s.ok THEN Raised(s.exc, << >>, s.log, ins)
      ELSE getFilesExcept(getFilesTry(ins, e), s.log, ins)

-----------------------------------------------------------------------------
(* validateSourceControlConfiguration, lines 275-305 *)

\* a faulty forcing: page and pageSize are forced, the caller's skipCommitInfo kept
ForcedPagingOnly(ins) == Put(Put(ins, INPUT_PAGE, 0), INPUT_PAGE_SIZE, 1)

\* lines 284-286: the forced parameters, written into the caller's mapping
ForcedInputs(ins) ==
  Put(Put(Put(ins, INPUT_SKIP_COMMIT_INFO, TRUE), INPUT_PAGE, 0), INPUT_PAGE_SIZE, 1)

\* lines 290-295: the mapping getFiles returned (run) decides the result
ConfigurationResult(run) ==
  IF run.result = "raised"
  THEN [try |-> Fail(run.exc, EmptyMap, run.calls), log |-> run.log,
        inputs |-> run.inputs]
  ELSE [try |-> Done(Put(Put(EmptyMap, OUTPUT_STATUS, OUTPUT_STATUS_SUCCESS),
                         OUTPUT_RESULT,
                         /\ OUTPUT_TOTAL_ELEMENTS \in DOMAIN run.outputs
                         /\ run.outputs[OUTPUT_TOTAL_ELEMENTS] > 0),
                     run.calls),
        log |-> run.log, inputs |-> run.inputs]

\* the try block, lines 278-295; inputs is the mapping as the block leaves it
validateSourceControlConfigurationTry(ins, e, log) ==
  LET v == validateInputs(ins, << INPUT_BASE_URL, INPUT_AUTH_CREDENTIALS_LINK,
                                  INPUT_REPOSITORY_NAME, INPUT_PROJECT_NAME,
                                  INPUT_BRANCH_NAME >>)
  IN  IF ~v.ok
      THEN [try |-> Fail(v.exc, EmptyMap, << >>), log |-> log, inputs |-> ins]
      ELSE ConfigurationResult(getFiles(ForcedInputs(ins), e, log))

\* lines 297-305: the except clause and the return, b the try block's end
validateSourceControlConfigurationExcept(b) ==
  IF b.try.ok THEN Returned(b.try.out, b.try.calls, b.log, b.inputs)
  ELSE
  LET errorMessage ==
        "Failed to validating source control configuration from GitHub Enterprise Server: "
          \o StrOfExc(b.try.exc)
      o1 == Put(b.try.out, OUTPUT_STATUS, OUTPUT_STATUS_FAILURE)
      o2 == Put(o1, OUTPUT_ERROR_MESSAGE, errorMessage)
  IN  Returned(Put(o2, OUTPUT_RESULT, FALSE), b.try.calls, b.log, b.inputs)

validateSourceControlConfiguration(ins, e, log) ==
  LET s == setup(ins, log)
  IN  IF ~s.ok THEN Raised(s.exc, << >>, s.log, ins)
      ELSE validateSourceControlConfigurationExcept(
             validateSourceControlConfigurationTry(ins, e, s.log))

-----------------------------------------------------------------------------
(* The host and the environment *)

HandlerNames == << "validateToken", "getFile", "getLatestCommitId",
                   "validateSourceControlConfiguration", "getAllCommits", "getFiles" >>

\* dispatch of an invocation to the handler the host names
Handle(h, ins, e, log) ==
  CASE h = "validateToken" -> validateToken(ins, e, log)
    [] h = "getFile" -> getFile(ins, e, log)
    [] h = "getLatestCommitId" -> getLatestCommitId(ins, e, log)
    [] h = "validateSourceControlConfiguration" ->
         validateSourceControlConfiguration(ins, e, log)
    [] h = "getAllCommits" -> getAllCommits(ins, e, log)
    [] h = "getFiles" -> getFiles(ins, e, log)

\* the answers of context.request the model draws from: the host raises; 404;
\* 200 without the key; 200 with the bare token text; 200 with the token as JSON
Contexts ==
  << [raises |-> TRUE, response |-> ("status" :> 500)],
     [raises |-> FALSE, response |-> ("status" :> 404)],
     [raises |-> FALSE, response |-> ("status" :> 200) @@ ("content" :> EmptyMap)],
     [raises |-> FALSE,
      response |-> ("status" :> 200) @@
                   ("content" :> (AUTH_LINK_KEY :> << "t", "o", "k", "1", "2", "3" >>))],
     [raises |-> FALSE,
      response |-> ("status" :> 200) @@
                   ("content" :> (AUTH_LINK_KEY :>
                        << Quote, "t", "o", "k", "1", "2", "3", Quote >>))] >>

GoodContext == Contexts[Len(Contexts)]

\* the most repository calls one invocation can make: two, then two per file
MaxRepoCalls == 2 + 2 * MaxPageSize

\* the environment in which every call succeeds and the remote holds nothing
QuietEnv == [context |-> GoodContext, failAt |-> 0, tree |-> 0, size |-> 0,
             committer |-> TRUE]

ListsFiles(h) == h \in {"getFiles", "validateSourceControlConfiguration"}

\* the environments an invocation is run in.  The answers to calls the handler
\* never makes are immaterial: they are fixed as in QuietEnv.
EnvsOf(h, ins, log) ==
  IF Handle(h, ins, QuietEnv, log).calls = << >> THEN {QuietEnv}
  ELSE {[QuietEnv EXCEPT !.context = Contexts[i]] : i \in 1..(Len(Contexts) - 1)}
       \cup
       {[context |-> GoodContext, failAt |-> f, tree |-> n, size |-> z,
         committer |-> c] :
          f \in 0..MaxRepoCalls,
          n \in IF ListsFiles(h) THEN 0..MaxTree ELSE {0},
          z \in IF h = "getFile" THEN 0..MaxFileSize ELSE {0},
          c \in IF h = "getFile" THEN BOOLEAN ELSE {TRUE}}

\* an answer differs from QuietEnv only where the run r has consumed it
Consumed(h, e, r) ==
  LET n == Len(RepoCalls(r.calls))
  IN  /\ e.failAt <= n
      /\ e.tree # 0 => n >= 2 /\ e.failAt # 2
      /\ e.size # 0 => n >= 2 /\ e.failAt # 2
      /\ ~e.committer => n = 3 /\ e.failAt = 0

\* a mapping without key k
Drop(m, k) == [x \in (DOMAIN m) \ {k} |-> m[x]]

LogLevels == {"debug", "BOGUS"}

SizeLimits == {"1", "x"}

\* a complete inputs mapping
FullInputs(logLevel, limit, page, pageSize, skip, toCommit) ==
  (INPUT_AUTH_CREDENTIALS_LINK :> "/core/auth/credentials/1") @@
  (INPUT_BASE_URL :> "https://ghe.example.com/api/v3") @@
  (INPUT_LOG_LEVEL :> logLevel) @@
  (INPUT_REPOSITORY_NAME :> "org") @@
  (INPUT_PROJECT_NAME :> "project") @@
  (INPUT_FILE_PATH :> "dir/file.txt") @@
  (INPUT_BRANCH_NAME :> "main") @@
  (INPUT_DIR_PATH :> "dir") @@
  (INPUT_TO_COMMIT :> toCommit) @@
  (INPUT_FILE_SIZE_LIMIT :> limit) @@
  (INPUT_PAGE :> page) @@
  (INPUT_PAGE_SIZE :> pageSize) @@
  (INPUT_SKIP_COMMIT_INFO :> skip)

\* the keys a handler reads, one of which the host may leave out
KeysRead(h) ==
  {INPUT_LOG_LEVEL, INPUT_BASE_URL, INPUT_AUTH_CREDENTIALS_LINK} \cup
  (IF h = "validateToken" THEN {}
   ELSE {INPUT_REPOSITORY_NAME, INPUT_PROJECT_NAME, INPUT_BRANCH_NAME}) \cup
  (IF h = "getFile" THEN {INPUT_FILE_PATH, INPUT_FILE_SIZE_LIMIT} ELSE {}) \cup
  (IF h = "getAllCommits" THEN {INPUT_FILE_PATH, INPUT_PAGE, INPUT_PAGE_SIZE} ELSE {}) \cup
  (IF ListsFiles(h)
   THEN {INPUT_PAGE, INPUT_PAGE_SIZE, INPUT_DIR_PATH, INPUT_TO_COMMIT,
         INPUT_SKIP_COMMIT_INFO}
   ELSE {})

\* the inputs mappings the host passes to handler h: complete, or one key short
InputsOf(h) ==
  {Drop(FullInputs(ll, lim, p, ps, sk, tc), k) :
     ll \in LogLevels,
     lim \in IF h = "getFile" THEN SizeLimits ELSE {"1"},
     p \in IF h \in {"getFiles", "getAllCommits"} THEN 0..MaxPage ELSE {MaxPage},
     ps \in IF h \in {"getFiles", "getAllCommits"} THEN 0..MaxPageSize ELSE {0},
     sk \in IF h = "getFiles" THEN BOOLEAN ELSE {FALSE},
     tc \in IF ListsFiles(h) THEN {"", "c0ffee"} ELSE {""},
     k \in KeysRead(h) \cup {"none"}}

-----------------------------------------------------------------------------
(* The state machine *)

Init ==
  /\ pc = "idle"
  /\ \E n \in 0..MaxHandlers : handlers = [i \in 1..n |-> i]
  /\ level = 30                    \* the root logger starts at WARNING
  /\ handlersBefore = handlers
  /\ handler = "none"
  /\ inputs = EmptyMap
  /\ inputsAfter = EmptyMap
  /\ env = QuietEnv
  /\ result = "none"
  /\ raisedExc = NoExc
  /\ outputs = EmptyMap
  /\ calls = << >>

\* the state an invocation that ran as r leaves
Ended(h, ins, e, r) ==
  /\ Consumed(h, e, r)
  /\ pc' = "done"
  /\ handlers' = r.log.handlers
  /\ level' = r.log.level
  /\ handlersBefore' = handlers
  /\ handler' = h
  /\ inputs' = ins
  /\ inputsAfter' = r.inputs
  /\ env' = e
  /\ result' = r.result
  /\ raisedExc' = r.exc
  /\ outputs' = r.outputs
  /\ calls' = r.calls

\* One action per handler: the host invokes it with some inputs, in some
\* environment, and the handler runs to its end.

InvokeValidateToken ==
  /\ pc = "idle"
  /\ \E ins \in InputsOf("validateToken") :
       \E e \in EnvsOf("validateToken", ins, Logger(handlers, level)) :
         Ended("validateToken", ins, e, validateToken(ins, e, Logger(handlers, level)))

InvokeGetFile ==
  /\ pc = "idle"
  /\ \E ins \in InputsOf("getFile") :
       \E e \in EnvsOf("getFile", ins, Logger(handlers, level)) :
         Ended("getFile", ins, e, getFile(ins, e, Logger(handlers, level)))

InvokeGetLatestCommitId ==
  /\ pc = "idle"
  /\ \E ins \in InputsOf("getLatestCommitId") :
       \E e \in EnvsOf("getLatestCommitId", ins, Logger(handlers, level)) :
         Ended("getLatestCommitId", ins, e, getLatestCommitId(ins, e, Logger(handlers, level)))

InvokeValidateSourceControlConfiguration ==
  /\ pc = "idle"
  /\ \E ins \in InputsOf("validateSourceControlConfiguration") :
       \E e \in EnvsOf("validateSourceControlConfiguration", ins, Logger(handlers, level)) :
         Ended("validateSourceControlConfiguration", ins, e, validateSourceControlConfiguration(ins, e, Logger(handlers, level)))

InvokeGetAllCommits ==
  /\ pc = "idle"
  /\ \E ins \in InputsOf("getAllCommits") :
       \E e \in EnvsOf("getAllCommits", ins, Logger(handlers, level)) :
         Ended("getAllCommits", ins, e, getAllCommits(ins, e, Logger(handlers, level)))

InvokeGetFiles ==
  /\ pc = "idle"
  /\ \E ins \in InputsOf("getFiles") :
       \E e \in EnvsOf("getFiles", ins, Logger(handlers, level)) :
         Ended("getFiles", ins, e, getFiles(ins, e, Logger(handlers, level)))

\* the host takes the result; nothing of the invocation is kept but the logger
HostReceives ==
  /\ pc = "done"
  /\ pc' = "idle"
  /\ handlersBefore' = handlers
  /\ handler' = "none"
  /\ inputs' = EmptyMap
  /\ inputsAfter' = EmptyMap
  /\ env' = QuietEnv
  /\ result' = "none"
  /\ raisedExc' = NoExc
  /\ outputs' = EmptyMap
  /\ calls' = << >>
  /\ UNCHANGED << handlers, level >>

Next ==
  \/ InvokeValidateToken
  \/ InvokeGetFile
  \/ InvokeGetLatestCommitId
  \/ InvokeValidateSourceControlConfiguration
  \/ InvokeGetAllCommits
  \/ InvokeGetFiles
  \/ HostReceives

Spec == Init /\ [][Next]_vars

-----------------------------------------------------------------------------
(* getPagedSlice on its own: a client pages through a list, page 0, 1, ...  *)
(* inputs holds the list, the page size and the next page index; calls holds *)
(* the page fetched last and outputs the concatenation of the pages so far. *)

ItemValues == {"a", "b", "c"}

ListsUpTo(n, values) == UNION {[1..k -> values] : k \in 0..n}

InitPaging ==
  /\ pc = "paging"
  /\ handlers = << >>
  /\ level = 30
  /\ handlersBefore = << >>
  /\ handler = "getPagedSlice"
  /\ \E items \in ListsUpTo(MaxLen, ItemValues), size \in 1..(MaxLen + 1) :
       inputs = [targetItems |-> items, pageSize |-> size, page |-> 0]
  /\ inputsAfter = EmptyMap
  /\ env = QuietEnv
  /\ result = "none"
  /\ raisedExc = NoExc
  /\ outputs = << >>
  /\ calls = << >>

FetchPage ==
  /\ pc = "paging"
  /\ inputs.page <= MaxLen + 1
  /\ calls' = getPagedSlice(inputs.page, inputs.pageSize, inputs.targetItems)
  /\ outputs' = outputs \o calls'
  /\ inputs' = [inputs EXCEPT !.page = @ + 1]
  /\ UNCHANGED << pc, handlers, level, handlersBefore, handler, inputsAfter, env,
                  result, raisedExc >>

NextPaging == FetchPage

SpecPaging == InitPaging /\ [][NextPaging]_vars

-----------------------------------------------------------------------------
(* getTokenFromAuthCredentialsLink on its own: the host context answers the *)
(* one request in some way and the resolver returns a token or raises.      *)

Tok123 == << "t", "o", "k", "1", "2", "3" >>

\* the texts the response may hold under privateKey
CredentialTexts ==
  ListsUpTo(MaxLen, {Quote, "t", "k"}) \cup {Tok123, << Quote >> \o Tok123 \o << Quote >>}

\* the responses of context.request: a status, and a content mapping or none
ResolverResponses ==
  {("status" :> st) : st \in {200, 404, 500}}
  \cup {("status" :> st) @@ ("content" :> EmptyMap) : st \in {200, 404, 500}}
  \cup {("status" :> st) @@ ("content" :> (AUTH_LINK_KEY :> text)) :
          st \in {200, 404, 500}, text \in CredentialTexts}

InitResolver ==
  /\ pc = "resolve"
  /\ handlers = << >>
  /\ level = 30
  /\ handlersBefore = << >>
  /\ handler = "getTokenFromAuthCredentialsLink"
  /\ inputs = (INPUT_AUTH_CREDENTIALS_LINK :> "/core/auth/credentials/1")
  /\ inputsAfter = EmptyMap
  /\ \/ env = [QuietEnv EXCEPT !.context = Contexts[1]]
     \/ \E resp \in ResolverResponses :
          env = [QuietEnv EXCEPT !.context = [raises |-> FALSE, response |-> resp]]
  /\ result = "none"
  /\ raisedExc = NoExc
  /\ outputs = << >>
  /\ calls = << >>

\* the state a call of the resolver that ended as r leaves; outputs is the token
Resolved(r) ==
  /\ pc' = "resolved"
  /\ result' = IF r.ok THEN "returned" ELSE "raised"
  /\ raisedExc' = r.exc
  /\ outputs' = r.val
  /\ calls' = r.calls
  /\ UNCHANGED << handlers, level, handlersBefore, handler, inputs, inputsAfter, env >>

ResolveCredentials ==
  /\ pc = "resolve"
  /\ Resolved(getTokenFromAuthCredentialsLink(env.context,
                                              inputs[INPUT_AUTH_CREDENTIALS_LINK]))

NextResolver == ResolveCredentials

SpecResolver == InitResolver /\ [][NextResolver]_vars

-----------------------------------------------------------------------------
(* Properties *)

\* the required-input set each handler declares, lines 78, 149, 225, 282, 348, 440
RequiredInputs(h) ==
  CASE h = "validateToken" -> {INPUT_BASE_URL, INPUT_AUTH_CREDENTIALS_LINK}
    [] h = "getFile" ->
         {INPUT_BASE_URL, INPUT_AUTH_CREDENTIALS_LINK, INPUT_REPOSITORY_NAME,
          INPUT_PROJECT_NAME, INPUT_FILE_PATH, INPUT_BRANCH_NAME,
          INPUT_FILE_SIZE_LIMIT}
    [] h = "getLatestCommitId" ->
         {INPUT_BASE_URL, INPUT_AUTH_CREDENTIALS_LINK, INPUT_REPOSITORY_NAME,
          INPUT_PROJECT_NAME, INPUT_BRANCH_NAME}
    [] h = "validateSourceControlConfiguration" ->
         {INPUT_BASE_URL, INPUT_AUTH_CREDENTIALS_LINK, INPUT_REPOSITORY_NAME,
          INPUT_PROJECT_NAME, INPUT_BRANCH_NAME}
    [] h = "getAllCommits" ->
         {INPUT_BASE_URL, INPUT_AUTH_CREDENTIALS_LINK, INPUT_REPOSITORY_NAME,
          INPUT_PROJECT_NAME, INPUT_BRANCH_NAME, INPUT_FILE_PATH, INPUT_PAGE,
          INPUT_PAGE_SIZE}
    [] h = "getFiles" ->
         {INPUT_BASE_URL, INPUT_AUTH_CREDENTIALS_LINK, INPUT_REPOSITORY_NAME,
          INPUT_PROJECT_NAME, INPUT_BRANCH_NAME, INPUT_PAGE, INPUT_PAGE_SIZE}
    [] OTHER -> {}

\* a handler has ended and the host has its result
HandlerEnded == pc = "done"

\* the handler returned a mapping whose status is st
ReturnedStatus(st) ==
  /\ result = "returned"
  /\ OUTPUT_STATUS \in DOMAIN outputs
  /\ outputs[OUTPUT_STATUS] = st

\* C1: every mapping a handler returns holds the key status, with value
\* 'success' or 'failure', and a mapping whose status is 'failure' also holds
\* the key error_message.
C1_ReturnedMappingHasStatus ==
  (HandlerEnded /\ result = "returned") =>
    /\ OUTPUT_STATUS \in DOMAIN outputs
    /\ outputs[OUTPUT_STATUS] \in {OUTPUT_STATUS_SUCCESS, OUTPUT_STATUS_FAILURE}
    /\ (outputs[OUTPUT_STATUS] = OUTPUT_STATUS_FAILURE
          => OUTPUT_ERROR_MESSAGE \in DOMAIN outputs)

\* What the code does hold (C1): every returned mapping but getFile's answer to
\* a file over the size limit has the status envelope.
C1_StatusUnlessFileTooLarge ==
  (HandlerEnded /\ result = "returned") =>
    \/ C1_ReturnedMappingHasStatus
    \/ handler = "getFile" /\ DOMAIN outputs = {OUTPUT_ERROR_MESSAGE, OUTPUT_RESULT}

\* C2: no invocation of a handler ends by raising: whatever the inputs (an
\* unknown logLevel included) and the environment, the handler returns a mapping.
C2_HandlerNeverRaises == HandlerEnded => result = "returned"

\* What the code does hold (C2): a handler raises only out of setupLogger, on a
\* logLevel that names no severity, and then before any network call.
C2_RaisesOnlyOnBadLogLevel ==
  (HandlerEnded /\ result = "raised") =>
    /\ raisedExc.type = "ValueError"
    /\ INPUT_LOG_LEVEL \in DOMAIN inputs
    /\ LoggingAttr(Upper(inputs[INPUT_LOG_LEVEL])) = << >>
    /\ calls = << >>

\* C3: a handler invoked without one of its required inputs returns status
\* 'failure' and makes no network call at all during the invocation.
C3_MissingInputRejectedBeforeNetwork ==
  (HandlerEnded /\ ~(RequiredInputs(handler) \subseteq DOMAIN inputs)) =>
    /\ ReturnedStatus(OUTPUT_STATUS_FAILURE)
    /\ calls = << >>

\* What the code does hold (C3): without a required input no network call is
\* made, and the handler returns status 'failure' unless setupLogger raised (C2).
C3_MissingInputNoNetwork ==
  (HandlerEnded /\ ~(RequiredInputs(handler) \subseteq DOMAIN inputs)) =>
    /\ calls = << >>
    /\ result = "returned" => ReturnedStatus(OUTPUT_STATUS_FAILURE)

\* C4: a getFiles mapping with status 'failure' carries no partial result: no
\* content list, no totalPages and no totalElements.
C4_FailureCarriesNoPartialResult ==
  (HandlerEnded /\ handler = "getFiles" /\ ReturnedStatus(OUTPUT_STATUS_FAILURE)) =>
    DOMAIN outputs \cap {OUTPUT_CONTENT, OUTPUT_TOTAL_PAGES, OUTPUT_TOTAL_ELEMENTS} = {}

\* What the code does hold (C4): a failed getFiles carries the listing keys
\* exactly when the exception came after the tree was listed and paged.
C4_PartialResultOnlyAfterListing ==
  (HandlerEnded /\ handler = "getFiles" /\ ReturnedStatus(OUTPUT_STATUS_FAILURE)) =>
    (DOMAIN outputs \cap {OUTPUT_CONTENT, OUTPUT_TOTAL_PAGES, OUTPUT_TOTAL_ELEMENTS} # {}
       <=> Len(RepoCalls(calls)) > 2)

\* the least number of pages of the given size that hold n items: ceil(n / size)
PagesFor(n, size) == CHOOSE k \in 0..n : k * size >= n /\ (k = 0 \/ (k - 1) * size < n)

\* C5: for every size > 0, index >= 0 and list L, getPagedSlice(index, size, L)
\* has length min(size, max(0, len(L) - index*size)), so it is empty whenever
\* index*size >= len(L) (L empty included), and the pages 0, 1, ... up to
\* ceil(len(L)/size) pages, concatenated, are exactly L.
C5_PagedSliceLengthAndConcatenation ==
  LET L     == inputs.targetItems
      size  == inputs.pageSize
      rest  == Len(L) - (inputs.page - 1) * size
      left  == IF rest > 0 THEN rest ELSE 0
  IN  /\ inputs.page > 0 => Len(calls) = (IF size < left THEN size ELSE left)
      /\ (inputs.page > 0 /\ (inputs.page - 1) * size >= Len(L)) => calls = << >>
      /\ inputs.page = PagesFor(Len(L), size) => outputs = L
      /\ inputs.page >= PagesFor(Len(L), size) => outputs = L

\* C5 witness: a list of three items paged by two has been read in two pages,
\* the second page holding the one item left.
C5_Witness ==
  /\ pc = "paging"
  /\ Len(inputs.targetItems) = 3
  /\ inputs.pageSize = 2
  /\ inputs.page = 2
  /\ calls = << inputs.targetItems[3] >>
  /\ outputs = inputs.targetItems

\* a getFiles invocation in which the tree was listed and no call failed
TreeListed ==
  /\ HandlerEnded
  /\ handler = "getFiles"
  /\ RequiredInputs("getFiles") \subseteq DOMAIN inputs
  /\ inputs[INPUT_PAGE] >= 0
  /\ inputs[INPUT_PAGE_SIZE] > 0
  /\ env.context = GoodContext
  /\ env.failAt = 0
  /\ \E i \in DOMAIN calls : calls[i] = "get_git_tree"

\* the paths of the blob entries among the first n entries the remote lists
BlobPaths(n) == {TreeEntries[i].path : i \in {j \in 1..n : TreeEntries[j].type = "blob"}}

\* path a sorts strictly before path b: by code point at the first position
\* where they differ, a proper prefix first
SortsBefore(a, b) ==
  \E k \in 1..Len(b) :
    /\ k <= Len(a) + 1
    /\ \A j \in 1..(k - 1) : a[j] = b[j]
    /\ k = Len(a) + 1 \/ a[k] < b[k]

\* the position of path p in the ascending order of the paths in ps, from 0
RankIn(p, ps) == Cardinality({q \in ps : SortsBefore(q, p)})

\* C6: when the required inputs are present, page >= 0, pageSize > 0 and every
\* remote call of the listing succeeds, getFiles returns status 'success',
\* totalElements is the number of blob entries of the listed tree, totalPages is
\* ceil(totalElements / pageSize), and the filePath values of content are, in
\* order, the page of the blob paths sorted ascending: the i-th is the blob path
\* at position page*pageSize + i - 1 of the ascending order.  No other entry
\* appears, and a page past the end is an empty content list, still 'success'.
C6_ListingIsSortedBlobPage ==
  TreeListed =>
    LET paths == BlobPaths(env.tree)
        n     == Cardinality(paths)
        start == inputs[INPUT_PAGE] * inputs[INPUT_PAGE_SIZE]
        rest  == IF n > start THEN n - start ELSE 0
    IN  /\ ReturnedStatus(OUTPUT_STATUS_SUCCESS)
        /\ outputs[OUTPUT_TOTAL_ELEMENTS] = n
        /\ outputs[OUTPUT_TOTAL_PAGES] = PagesFor(n, inputs[INPUT_PAGE_SIZE])
        /\ Len(outputs[OUTPUT_CONTENT])
             = (IF inputs[INPUT_PAGE_SIZE] < rest THEN inputs[INPUT_PAGE_SIZE] ELSE rest)
        /\ \A i \in DOMAIN outputs[OUTPUT_CONTENT] :
             /\ outputs[OUTPUT_CONTENT][i][OUTPUT_FILE_PATH] \in paths
             /\ RankIn(outputs[OUTPUT_CONTENT][i][OUTPUT_FILE_PATH], paths)
                  = start + i - 1

\* C6 witness: the remote lists "b", the directory "a", "a/c" and "a.b"; page 1
\* of size 2 is the single path "b", the last of three sorted blob paths.
C6_Witness ==
  /\ TreeListed
  /\ env.tree = 4
  /\ inputs[INPUT_PAGE] = 1
  /\ inputs[INPUT_PAGE_SIZE] = 2
  /\ ReturnedStatus(OUTPUT_STATUS_SUCCESS)
  /\ outputs[OUTPUT_TOTAL_ELEMENTS] = 3
  /\ outputs[OUTPUT_TOTAL_PAGES] = 2
  /\ Len(outputs[OUTPUT_CONTENT]) = 1
  /\ outputs[OUTPUT_CONTENT][1][OUTPUT_FILE_PATH] = << 98 >>

\* the mapping the delegated getFiles call returns to
\* validateSourceControlConfiguration; setupLogger has succeeded before it
DelegatedOutputs ==
  getFiles(ForcedInputs(inputs), env, Logger(<< >>, 30)).outputs

\* C7: whenever the required inputs of validateSourceControlConfiguration are
\* present it returns status 'success', and result is true exactly when the
\* mapping the delegated getFiles call returned holds totalElements > 0.
C7_ConfigurationAlwaysSucceeds ==
  (/\ HandlerEnded
   /\ handler = "validateSourceControlConfiguration"
   /\ RequiredInputs(handler) \subseteq DOMAIN inputs) =>
    /\ ReturnedStatus(OUTPUT_STATUS_SUCCESS)
    /\ OUTPUT_RESULT \in DOMAIN outputs
    /\ outputs[OUTPUT_RESULT] <=>
         /\ OUTPUT_TOTAL_ELEMENTS \in DOMAIN DelegatedOutputs
         /\ DelegatedOutputs[OUTPUT_TOTAL_ELEMENTS] > 0

\* What the code does hold (C7): the same, for every invocation that returns;
\* the invocation raises instead when setupLogger does (C2).
C7_ConfigurationSucceedsIfReturned ==
  (/\ HandlerEnded
   /\ handler = "validateSourceControlConfiguration"
   /\ RequiredInputs(handler) \subseteq DOMAIN inputs
   /\ result = "returned") =>
    /\ ReturnedStatus(OUTPUT_STATUS_SUCCESS)
    /\ DOMAIN outputs = {OUTPUT_STATUS, OUTPUT_RESULT}
    /\ outputs[OUTPUT_RESULT] <=>
         /\ env.context = GoodContext
         /\ env.failAt = 0
         /\ BlobPaths(env.tree) # {}

\* a getFile invocation in which the file was fetched: the credentials were
\* resolved and get_repo and get_contents succeeded
FileFetched ==
  /\ HandlerEnded
  /\ handler = "getFile"
  /\ RequiredInputs("getFile") \subseteq DOMAIN inputs
  /\ env.context = GoodContext
  /\ env.failAt \notin {1, 2}
  /\ \E i \in DOMAIN calls : calls[i] = "get_contents"

ResolverResponse == env.context.response

\* C9: getTokenFromAuthCredentialsLink issues exactly one context.request; on
\* a response whose status is not 200 it raises; on the response
\* {status: 200, content: {"privateKey": "tok123"}} it returns the token "tok123".
C9_ResolverReturnsPrivateKey ==
  pc = "resolved" =>
    /\ calls = << "context.request" >>
    /\ (~env.context.raises /\ ResolverResponse["status"] # 200) => result = "raised"
    /\ (/\ ~env.context.raises
        /\ ResolverResponse = ("status" :> 200) @@
                              ("content" :> (AUTH_LINK_KEY :> Tok123))) =>
         /\ result = "returned"
         /\ outputs = Tok123

\* What the code does hold (C9): one request, a raise on every status but 200,
\* and a token only when the text under privateKey is itself a JSON string, of
\* which the token is the decoded value.
C9_ResolverDecodesJsonText ==
  pc = "resolved" =>
    /\ calls = << "context.request" >>
    /\ (~env.context.raises /\ ResolverResponse["status"] # 200) => result = "raised"
    /\ result = "returned" =>
         /\ ResolverResponse["status"] = 200
         /\ ResolverResponse["content"][AUTH_LINK_KEY] = << Quote >> \o outputs \o << Quote >>

\* a getFile invocation whose inputs lack baseUrl and nothing else it requires
LacksOnlyBaseUrl ==
  /\ HandlerEnded
  /\ handler = "getFile"
  /\ RequiredInputs("getFile") \ DOMAIN inputs = {INPUT_BASE_URL}

MostCalls(h, ins) ==
  CASE h = "validateToken" -> 2
    [] h = "getFile" -> 4
    [] h = "getFiles" ->
         IF /\ INPUT_SKIP_COMMIT_INFO \in DOMAIN ins
            /\ ~ins[INPUT_SKIP_COMMIT_INFO]
            /\ INPUT_PAGE_SIZE \in DOMAIN ins
         THEN 3 + 2 * ins[INPUT_PAGE_SIZE]
         ELSE 3
    [] OTHER -> 3

HandlersBefore == {handlersBefore[i] : i \in DOMAIN handlersBefore}

\* the numeric level the invocation asked for: logLevel, or INFO when absent
RequestedLevel ==
  IF INPUT_LOG_LEVEL \notin DOMAIN inputs THEN 20
  ELSE IF inputs[INPUT_LOG_LEVEL] = "debug" THEN 10 ELSE -1

\* an invocation whose logLevel is valid or absent has ended
LoggerSetUp == HandlerEnded /\ RequestedLevel # -1

\* C12: after setupLogger has run with a valid or absent logLevel, whatever the
\* number of handlers installed on the root logger before, none of them remains,
\* exactly one newly installed handler is present and the root logger's level
\* is the requested level; so after every invocation of any sequence.
C12_LoggerFullyReinitialised ==
  LoggerSetUp =>
    /\ Len(handlers) = 1
    /\ handlers[1] \notin HandlersBefore
    /\ level = RequestedLevel

\* the handlers on the root logger when setupLogger ran last in the invocation:
\* validateSourceControlConfiguration runs it a second time, in getFiles
HandlersAtLastSetup ==
  IF /\ handler = "validateSourceControlConfiguration"
     /\ RequiredInputs(handler) \subseteq DOMAIN inputs
  THEN Len(handlersBefore) \div 2
  ELSE Len(handlersBefore)

\* What the code does hold (C12): setupLogger reinitialises the logger when it
\* finds at most one handler installed; of n >= 2 handlers it leaves every
\* second one in place, installs no new handler and does not change the level.
C12_ReinitialisedUpToOneHandler ==
  LoggerSetUp =>
    IF Len(handlersBefore) <= 1 \/ HandlersAtLastSetup = 1
    THEN /\ Len(handlers) = 1
         /\ handlers[1] \notin HandlersBefore
         /\ level = RequestedLevel
    ELSE /\ Len(handlers) = HandlersAtLastSetup \div 2
         /\ \A i \in DOMAIN handlers : handlers[i] \in HandlersBefore

\* a getAllCommits invocation with all its required keys has ended
AllCommitsEnded ==
  /\ HandlerEnded
  /\ handler = "getAllCommits"
  /\ RequiredInputs("getAllCommits") \subseteq DOMAIN inputs

\* getLatestCommitId run on the inputs ins in the environment and with the
\* root logger of the invocation that has ended
LatestCommitIdOn(ins) == getLatestCommitId(ins, env, Logger(handlersBefore, 30))

\* the inputs without the three keys only getAllCommits requires
WithoutPaging == Drop(Drop(Drop(inputs, INPUT_FILE_PATH), INPUT_PAGE), INPUT_PAGE_SIZE)

ConfigurationChecked ==
  /\ HandlerEnded
  /\ handler = "validateSourceControlConfiguration"
  /\ result = "returned"
  /\ RequiredInputs(handler) \subseteq DOMAIN inputs

\* the keys validateSourceControlConfiguration forces
ForcedKeys == {INPUT_SKIP_COMMIT_INFO, INPUT_PAGE, INPUT_PAGE_SIZE}

\* C14: no handler modifies the inputs mapping it was given, but for
\* validateSourceControlConfiguration: once its required-key check has passed
\* it overwrites skipCommitInfo = true, page = 0 and pageSize = 1 in the
\* caller's mapping, replacing what the caller supplied, and leaves every other
\* key as it was; when the check fails the mapping is left unchanged.
C14_OnlyConfigurationForcesInputs ==
  HandlerEnded =>
    IF ConfigurationChecked
    THEN /\ DOMAIN inputsAfter = DOMAIN inputs \cup ForcedKeys
         /\ inputsAfter[INPUT_SKIP_COMMIT_INFO] = TRUE
         /\ inputsAfter[INPUT_PAGE] = 0
         /\ inputsAfter[INPUT_PAGE_SIZE] = 1
         /\ \A k \in DOMAIN inputs \ ForcedKeys : inputsAfter[k] = inputs[k]
    ELSE inputsAfter = inputs

\* C14 witness: the caller passed skipCommitInfo = false and a page other than
\* 0 to validateSourceControlConfiguration and finds them replaced afterwards.
C14_Witness ==
  /\ ConfigurationChecked
  /\ ForcedKeys \subseteq DOMAIN inputs
  /\ inputs[INPUT_SKIP_COMMIT_INFO] = FALSE
  /\ inputs[INPUT_PAGE] # 0
  /\ inputs[INPUT_PAGE_SIZE] # 1
  /\ inputsAfter[INPUT_SKIP_COMMIT_INFO] = TRUE
  /\ inputsAfter[INPUT_PAGE] = 0
  /\ inputsAfter[INPUT_PAGE_SIZE] = 1

====
